---------------------------- MODULE Spec2Model ----------------------------
(***************************************************************************)
(* A model of babynames.py: the behindthename.com scraper (BehindTheName), *)
(* the SSA statistics scraper (SSA) and the merged database (NameDB).      *)
(*                                                                         *)
(* Python text that the code takes apart character by character (names,    *)
(* table cells) is a sequence of one-character strings; text that is only  *)
(* compared or concatenated (gender, descr, languages) is a TLA+ string.   *)
(* A Python dict is a function whose domain is its key set; a dict whose   *)
(* iteration order the code depends on (SSA.name_stats) is a sequence of   *)
(* [k, v] items in insertion order.  An optional value (dict.get) is a     *)
(* sequence of length 0 or 1.                                              *)
(***************************************************************************)
EXTENDS Integers, Sequences, FiniteSets, TLC

VARIABLES
    text, applied,                            \* normalize_name: the string held, applications so far
    name_stats, year, crit, row, cols, ssa_pc, \* SSA.scrape: self.name_stats and the loop position
    btn, err, ops, call,                      \* the BehindTheName object of a NameDB, the exception that ended the run, calls made, last call
    twin, twin_err                            \* the object that load() returned from a saved copy of btn

normVars == <<text, applied>>
ssaVars  == <<name_stats, year, crit, row, cols, ssa_pc>>
dbVars   == <<btn, err, ops, call>>
twinVars == <<twin, twin_err>>
vars     == <<text, applied, name_stats, year, crit, row, cols, ssa_pc, btn, err, ops, call, twin, twin_err>>

--------------------------------------------------------------------------
(* Bounds *)

MaxLen == 4
MaxApply == 2
MaxRows == 2
ThisYear == 1881
MaxEntries == 1
MaxRatedEntries == 2
MaxOps == 3

--------------------------------------------------------------------------
(* Text helpers *)

Min(S) == CHOOSE x \in S : \A y \in S : x <= y
Max(S) == CHOOSE x \in S : \A y \in S : x >= y
Range(s) == {s[i] : i \in DOMAIN s}

Digits == <<"0", "1", "2", "3", "4", "5", "6", "7", "8", "9">>
IsDigit(c) == \E i \in 1..10 : Digits[i] = c
DigitVal(c) == (CHOOSE i \in 1..10 : Digits[i] = c) - 1
Whitespace == {" ", "\t", "\n"}

\* str.strip(): leading and trailing whitespace removed
Strip(s) ==
    LET keep == {i \in 1..Len(s) : s[i] \notin Whitespace}
    IN IF keep = {} THEN <<>> ELSE SubSeq(s, Min(keep), Max(keep))

\* whether t, as a whole, matches \(?\d+\)?
MatchesDisamb(t) ==
    LET a == IF Len(t) > 0 /\ t[1] = "(" THEN 2 ELSE 1
        b == IF Len(t) > 0 /\ t[Len(t)] = ")" THEN Len(t) - 1 ELSE Len(t)
    IN a <= b /\ \A i \in a..b : IsDigit(t[i])

\* re.sub(r'\(?\d+\)?$', '', s): the leftmost start from which the pattern
\* matches up to the end of the string is cut off (the pattern cannot match
\* the empty string, so there is no second replacement)
ReSubDisamb(s) ==
    LET starts == {i \in 1..Len(s) : MatchesDisamb(SubSeq(s, i, Len(s)))}
    IN IF starts = {} THEN s ELSE SubSeq(s, 1, Min(starts) - 1)

normalize_name(s) == Strip(ReSubDisamb(s))

RECURSIVE DigitsValue(_)
DigitsValue(s) == IF s = <<>> THEN 0 ELSE 10 * DigitsValue(SubSeq(s, 1, Len(s) - 1)) + DigitVal(s[Len(s)])

\* int(s) for a str: [ok, val]; not ok is a ValueError
ParseInt(s) ==
    LET t == Strip(s)
    IN IF t # <<>> /\ \A i \in 1..Len(t) : IsDigit(t[i])
       THEN [ok |-> TRUE, val |-> DigitsValue(t)]
       ELSE [ok |-> FALSE, val |-> 0]

RECURSIVE IntToStr(_)
IntToStr(n) == IF n < 10 THEN <<Digits[n + 1]>> ELSE Append(IntToStr(n \div 10), Digits[(n % 10) + 1])

RemoveChar(s, c) == SelectSeq(s, LAMBDA x : x # c)

RECURSIVE Pow10(_)
Pow10(n) == IF n = 0 THEN 1 ELSE 10 * Pow10(n - 1)

\* dict.get(k): an optional value
Get(d, k) == IF k \in DOMAIN d THEN <<d[k]>> ELSE <<>>

--------------------------------------------------------------------------
(* normalize_name on its own: the string a listing carries, normalized again and again *)

Alphabet == {"A", "1", "(", ")", " "}
Texts == UNION {[1..n -> Alphabet] : n \in 0..MaxLen}

\* whether t ends in a numeric disambiguator: an optional "(", digits, an optional ")"
EndsInDisamb(t) == \E i \in 1..Len(t) : MatchesDisamb(SubSeq(t, i, Len(t)))

IdleNorm == text = <<>> /\ applied = 0
IdleSsa == name_stats = <<>> /\ year = 0 /\ crit = 0 /\ row = 0 /\ cols = <<>> /\ ssa_pc = "idle"
IdleDb == btn = <<>> /\ err = "none" /\ ops = 0 /\ call = <<>>
IdleTwin == twin = <<>> /\ twin_err = "none"

InitNorm == text \in Texts /\ applied = 0 /\ IdleSsa /\ IdleDb /\ IdleTwin

NormalizeName ==
    /\ applied < MaxApply
    /\ text' = normalize_name(text)
    /\ applied' = applied + 1
    /\ UNCHANGED <<ssaVars, dbVars, twinVars>>

NextNorm == NormalizeName
SpecNorm == InitNorm /\ [][NextNorm]_vars

\* C5: normalize_name is idempotent and its result never ends in a numeric
\* disambiguator: once a string has been normalized, normalizing it again
\* returns it unchanged and it carries no trailing (digits) group.
C5_IdempotentNoDisamb ==
    applied >= 1 => normalize_name(text) = text /\ ~EndsInDisamb(text)

--------------------------------------------------------------------------
(* SSA.scrape *)

\* A dict whose iteration order matters: items [k, v] in insertion order
HasKey(d, k) == \E i \in 1..Len(d) : d[i].k = k
KeyIndex(d, k) == CHOOSE i \in 1..Len(d) : d[i].k = k
\* d.setdefault(k, default), as the dict afterwards
SetDefault(d, k, default) == IF HasKey(d, k) THEN d ELSE Append(d, [k |-> k, v |-> default])

\* a Python int used as a dict key, and the str that json writes for it
IntKey(n) == [int |-> n]
StrKey(s) == [str |-> s]

\* the landing page's paragraph, whose text ends in the four digits of the year
LandingText == <<"A", "n", "y", " ", "y", "e", "a", "r", " ", "a", "f", "t", "e", "r", " ", "1", "8", "7", "9">>
first_year == ParseInt(SubSeq(LandingText, Len(LandingText) - 3, Len(LandingText))).val + 1
this_year == ThisYear

criteria == << <<"n", "count">>, <<"p", "prob">> >>

\* int(cell.replace(',', ''))
CountValue(cell) == ParseInt(RemoveChar(cell, ","))

\* float(s) for digits with at most one point: [ok, mant, frac] stands for mant / 10^frac
ParseFloat(s) ==
    LET t == Strip(s)
        dots == {i \in 1..Len(t) : t[i] = "."}
        digs == RemoveChar(t, ".")
    IN IF Cardinality(dots) <= 1 /\ digs # <<>> /\ \A i \in 1..Len(digs) : IsDigit(digs[i])
       THEN [ok |-> TRUE, mant |-> DigitsValue(digs),
             frac |-> IF dots = {} THEN 0 ELSE Len(t) - Min(dots)]
       ELSE [ok |-> FALSE, mant |-> 0, frac |-> 0]

\* round(float(cell[:-1]) / 100, 7), held as a number of 10^-7 units
ProbValue(cell) ==
    LET f == ParseFloat(SubSeq(cell, 1, Len(cell) - 1))
        num == f.mant * Pow10(5)
        den == Pow10(f.frac)
        q == num \div den
        r == num % den
        up == 2 * r > den \/ (2 * r = den /\ q % 2 = 1)
    IN [ok |-> f.ok, val |-> IF up THEN q + 1 ELSE q]

ParseValue(c, cell) == IF c = "n" THEN CountValue(cell) ELSE ProbValue(cell)

\* entry.setdefault(key, {})[yr] = value, for entry a dict of dicts
SetIn(entry, key, yr, value) ==
    LET inner == IF key \in DOMAIN entry THEN entry[key] ELSE <<>>
    IN (key :> ((IntKey(yr) :> value) @@ inner)) @@ entry

\* a deliberately wrong variant, to show the property below is sensitive to it: the rank is recorded only while the counts are read
UpdateSideRankWithCountOnly(stats, name, gender, crit_name, yr, value, rank) ==
    LET s1 == SetDefault(stats, name, <<>>)
        ni == KeyIndex(s1, name)
        g1 == SetDefault(s1[ni].v, gender, <<>>)
        gi == KeyIndex(g1, gender)
        e1 == SetIn(g1[gi].v, crit_name, yr, value)
        e2 == IF crit_name = "count" THEN SetIn(e1, "rank", yr, rank) ELSE e1
    IN [s1 EXCEPT ![ni].v = [g1 EXCEPT ![gi].v = e2]]

\* one side of a row: stats.setdefault(name, {}).setdefault(gender, {}), then
\* the value and the rank of the year
UpdateSide(stats, name, gender, crit_name, yr, value, rank) ==
    LET s1 == SetDefault(stats, name, <<>>)
        ni == KeyIndex(s1, name)
        g1 == SetDefault(s1[ni].v, gender, <<>>)
        gi == KeyIndex(g1, gender)
        e1 == SetIn(g1[gi].v, crit_name, yr, value)
        e2 == SetIn(e1, "rank", yr, rank)
    IN [s1 EXCEPT ![ni].v = [g1 EXCEPT ![gi].v = e2]]

\* the body of the loop over the rows: [stats, exc]
ProcessRow(stats, c, yr, i, cs) ==
    LET crit_name == IF c = "n" THEN "count" ELSE "prob"
        idx == ParseInt(cs[1])
    IN IF Len(cs) # 5 THEN [stats |-> stats, exc |-> "AssertionError"]
       ELSE IF ~idx.ok THEN [stats |-> stats, exc |-> "ValueError"]
       ELSE IF idx.val # i + 1 THEN [stats |-> stats, exc |-> "AssertionError"]
       ELSE LET male_name == cs[2]
                male_count == ParseValue(c, cs[3])
                female_name == cs[4]
                female_count == ParseValue(c, cs[5])
            IN IF ~male_count.ok \/ ~female_count.ok THEN [stats |-> stats, exc |-> "ValueError"]
               ELSE LET s1 == IF Len(male_name) > 0
                              THEN UpdateSide(stats, male_name, "M", crit_name, yr, male_count.val, i + 1)
                              ELSE stats
                        s2 == IF Len(female_name) > 0
                              THEN UpdateSide(s1, female_name, "F", crit_name, yr, female_count.val, i + 1)
                              ELSE s1
                    IN [stats |-> s2, exc |-> "none"]

\* The rows a result table may hold at index i under criterion c
NameCells == {<<>>, <<"A">>}
ValueCells(c) == IF c = "n" THEN {<<>>, <<"1", ",", "2">>} ELSE {<<>>, <<"1", ".", "5", "%">>}
RowsAt(c, i) ==
    {<<IntToStr(i + 1), m, mv, f, fv>> : m \in NameCells, mv \in ValueCells(c), f \in NameCells, fv \in ValueCells(c)}
    \cup {<<IntToStr(i + 1), <<"A">>, <<"7">>, <<"A">>>>,
          <<IntToStr(i + 2), <<"A">>, <<"7">>, <<"A">>, <<"7">>>>}

InitSsa ==
    /\ name_stats = <<>> /\ year = 0 /\ crit = 0 /\ row = 0 /\ cols = <<>> /\ ssa_pc = "start"
    /\ IdleNorm /\ IdleDb /\ IdleTwin

\* the landing page is read and the loops over the years and the criteria begin
ScrapeBegin ==
    /\ ssa_pc = "start"
    /\ year' = first_year
    /\ crit' = 1
    /\ ssa_pc' = IF first_year < this_year THEN "post" ELSE "done"
    /\ UNCHANGED <<name_stats, row, cols, normVars, dbVars, twinVars>>

\* the request for the top 1000 of one year under one criterion
Post ==
    /\ ssa_pc = "post"
    /\ row' = 0
    /\ ssa_pc' = "rows"
    /\ UNCHANGED <<name_stats, year, crit, cols, normVars, dbVars, twinVars>>

\* one row of rows[1:-1]
Row ==
    /\ ssa_pc = "rows"
    /\ row < MaxRows
    /\ \E cs \in RowsAt(criteria[crit][1], row) :
          LET r == ProcessRow(name_stats, criteria[crit][1], year, row, cs)
          IN /\ cols' = cs
             /\ name_stats' = r.stats
             /\ row' = row + 1
             /\ ssa_pc' = IF r.exc = "none" THEN "rows" ELSE r.exc
    /\ UNCHANGED <<year, crit, normVars, dbVars, twinVars>>

\* the rows are exhausted: the next criterion, the next year, or the end
EndTable ==
    /\ ssa_pc = "rows"
    /\ IF crit < Len(criteria)
       THEN crit' = crit + 1 /\ year' = year /\ ssa_pc' = "post"
       ELSE /\ crit' = 1
            /\ year' = year + 1
            /\ ssa_pc' = IF year + 1 < this_year THEN "post" ELSE "done"
    /\ UNCHANGED <<name_stats, row, cols, normVars, dbVars, twinVars>>

NextSsa == ScrapeBegin \/ Post \/ Row \/ EndTable
SpecSsa == InitSsa /\ [][NextSsa]_vars

\* the per-gender statistics that name_stats holds
StatEntries(stats) == UNION {{stats[n].v[g].v : g \in 1..Len(stats[n].v)} : n \in 1..Len(stats)}


\* C7 (as claimed): after one run of SSA.scrape, every name and gender of
\* name_stats has exactly one of count and prob populated, next to rank.
C7_ExactlyOneOfCountProb ==
    ssa_pc = "done" =>
        \A e \in StatEntries(name_stats) :
            /\ "rank" \in DOMAIN e
            /\ ("count" \in DOMAIN e) # ("prob" \in DOMAIN e)

YearsOf(e, key) == IF key \in DOMAIN e THEN DOMAIN e[key] ELSE {}

\* C7 (amended): after one run of SSA.scrape, every name and gender of
\* name_stats has rank and at least one of count and prob populated, and the
\* years of rank are the years of count and of prob together.
C7_AtLeastOneOfCountProb ==
    ssa_pc = "done" =>
        \A e \in StatEntries(name_stats) :
            /\ "rank" \in DOMAIN e
            /\ ("count" \in DOMAIN e) \/ ("prob" \in DOMAIN e)
            /\ YearsOf(e, "rank") = YearsOf(e, "count") \cup YearsOf(e, "prob")
            /\ YearsOf(e, "rank") # {}

\* a finished run in which one name and gender has count and prob of one year
C7_Witness ==
    /\ ssa_pc = "done"
    /\ \E e \in StatEntries(name_stats) :
          YearsOf(e, "count") \cap YearsOf(e, "prob") # {}

\* C8: a row that passes validation and has an empty name on one side
\* updates the other side only, whatever the value cell next to the empty
\* name holds, and the loop goes on to the following rows.
C8_EmptyNameSkipsSideOnly ==
    [][
        LET c == criteria[crit][1]
            crit_name == criteria[crit][2]
            cs == cols'
            idx == ParseInt(cs[1])
            sideOk(nm, cell) == nm # <<>> => ParseValue(c, cell).ok
            s1 == IF cs[2] # <<>>
                  THEN UpdateSide(name_stats, cs[2], "M", crit_name, year, ParseValue(c, cs[3]).val, row + 1)
                  ELSE name_stats
            s2 == IF cs[4] # <<>>
                  THEN UpdateSide(s1, cs[4], "F", crit_name, year, ParseValue(c, cs[5]).val, row + 1)
                  ELSE s1
        IN (/\ ssa_pc = "rows" /\ row' = row + 1
            /\ Len(cs) = 5 /\ idx.ok /\ idx.val = row + 1
            /\ cs[2] = <<>> \/ cs[4] = <<>>
            /\ sideOk(cs[2], cs[3]) /\ sideOk(cs[4], cs[5]))
           => (ssa_pc' = "rows" /\ name_stats' = s2)
    ]_vars

--------------------------------------------------------------------------
(* BehindTheName *)

\* BehindTheName(get_ratings): name_info holds two defaultdict(list); dd
\* records that the two mappings are defaultdicts (a plain dict raises
\* KeyError where a defaultdict inserts an empty list)
NewBtn(get_ratings) == [get_ratings |-> get_ratings, dd |-> TRUE, first |-> <<>>, last |-> <<>>]

RECURSIVE Join(_)
Join(pieces) == IF pieces = <<>> THEN "" ELSE pieces[1] \o Join(Tail(pieces))

\* process_name_entry(entry): <<name, entry_data>>
process_name_entry(entry) ==
    LET name == normalize_name(entry.listname)
        gender == (IF entry.masc THEN "M" ELSE "") \o (IF entry.fem THEN "F" ELSE "")
        languages == entry.usg
        description == Join(entry.after_br)
        related == [i \in 1..Len(entry.nl) |-> normalize_name(entry.nl[i])]
        d0 == IF gender # "" THEN [gender |-> gender] ELSE <<>>
        d1 == [languages |-> languages, descr |-> description] @@ d0
        d2 == IF related # <<>> THEN [related |-> related] @@ d1 ELSE d1
    IN <<name, d2>>

\* the exceptions that "except (ConnectionError, TimeoutError)" catches: the
\* builtin classes and their subclasses; those of requests descend from
\* requests.exceptions.RequestException and are not among them
CaughtByExcept == {"ConnectionError", "TimeoutError", "ConnectionResetError"}

\* the rating page's table: [ok, fields] with fields the ratings and num_raters
RECURSIVE RatingRows(_)
RatingRows(rows) ==
    IF rows = <<>> THEN [ok |-> TRUE, ratings |-> <<>>]
    ELSE LET rest == RatingRows(SubSeq(rows, 1, Len(rows) - 1))
             cs == rows[Len(rows)]
             attr == Strip(cs[1])
             percent == ParseInt(SubSeq(cs[2], 1, Len(cs[2]) - 1))
         IN [ok |-> rest.ok /\ percent.ok, ratings |-> (attr :> percent.val) @@ rest.ratings]

RatingFields(soup) ==
    LET rr == RatingRows(soup.table[1])
        toks == soup.sibling
        n == IF Len(toks) >= 2 THEN ParseInt(toks[Len(toks) - 1]) ELSE [ok |-> FALSE, val |-> 0]
    IN [ok |-> rr.ok /\ n.ok, fields |-> [ratings |-> rr.ratings, num_raters |-> n.val]]

\* name_info[key][name] read for appending: the list, or KeyError
Subscript(b, m, name) ==
    IF name \in DOMAIN m THEN [ok |-> TRUE, list |-> m[name]]
    ELSE IF b.dd THEN [ok |-> TRUE, list |-> <<>>]
    ELSE [ok |-> FALSE, list |-> <<>>]

\* if (entry_data not in list): list.append(entry_data)
AppendIfNew(list, entry_data) ==
    IF entry_data \in Range(list) THEN list ELSE Append(list, entry_data)

\* a deliberately wrong variant, to show the property below is sensitive to it: records are compared in every field
AppendIfNewDescrFullRecord(eds, entry_data) ==
    IF entry_data \in Range(eds) THEN eds ELSE Append(eds, entry_data)

\* if (not any(descr == ed.get('descr') for ed in eds)): eds.append(entry_data)
AppendIfNewDescr(eds, entry_data) ==
    LET descr == Get(entry_data, "descr")
    IN IF \E i \in 1..Len(eds) : descr = Get(eds[i], "descr") THEN eds ELSE Append(eds, entry_data)

\* scrape_first_name_page from entry i of the page on: [btn, exc]
RECURSIVE ScrapeFirstFrom(_, _, _)
ScrapeFirstFrom(b, page, i) ==
    IF i > Len(page) THEN [btn |-> b, exc |-> "none"]
    ELSE LET pe == process_name_entry(page[i].entry)
             name == pe[1]
             resp == page[i].rating
             rated == b.get_ratings /\ resp.kind = "soup" /\ resp.table # <<>>
             rf == IF rated THEN RatingFields(resp) ELSE [ok |-> TRUE, fields |-> <<>>]
             entry_data == rf.fields @@ pe[2]
             cur == Subscript(b, b.first, name)
         IN IF b.get_ratings /\ resp.kind = "raise"
            THEN IF resp.exc \in CaughtByExcept
                 THEN ScrapeFirstFrom(b, page, i + 1)
                 ELSE [btn |-> b, exc |-> resp.exc]
            ELSE IF ~rf.ok THEN [btn |-> b, exc |-> "ValueError"]
            ELSE IF ~cur.ok THEN [btn |-> b, exc |-> "KeyError"]
            ELSE ScrapeFirstFrom([b EXCEPT !.first = (name :> AppendIfNew(cur.list, entry_data)) @@ b.first],
                                 page, i + 1)

scrape_first_name_page(b, page) == ScrapeFirstFrom(b, page, 1)

\* scrape_last_name_page from entry i of the page on: [btn, exc]
RECURSIVE ScrapeLastFrom(_, _, _, _)
ScrapeLastFrom(b, page, submit, i) ==
    IF i > Len(page) THEN [btn |-> b, exc |-> "none"]
    ELSE LET pe == process_name_entry(page[i].entry)
             name == pe[1]
             entry_data == [submitted |-> submit] @@ pe[2]
             eds == Subscript(b, b.last, name)
         IN IF ~eds.ok THEN [btn |-> b, exc |-> "KeyError"]
            ELSE ScrapeLastFrom([b EXCEPT !.last = (name :> AppendIfNewDescr(eds.list, entry_data)) @@ b.last],
                                page, submit, i + 1)

scrape_last_name_page(b, page, submit) == ScrapeLastFrom(b, page, submit, 1)

\* save: the JSON document. json.dump writes every dict key as a str, so an
\* int key becomes the str of its digits; the values are kept
JsonKey(k) == IF "int" \in DOMAIN k THEN StrKey(IntToStr(k.int)) ELSE k
JsonYears(m) == [j \in {JsonKey(k) : k \in DOMAIN m} |-> m[CHOOSE k \in DOMAIN m : JsonKey(k) = j]]
JsonRecord(rec) ==
    IF "ssa" \in DOMAIN rec
    THEN [rec EXCEPT !.ssa = [c \in DOMAIN rec.ssa |-> JsonYears(rec.ssa[c])]]
    ELSE rec
JsonNames(m) == [n \in DOMAIN m |-> [i \in 1..Len(m[n]) |-> JsonRecord(m[n][i])]]
save(b) == [has_ratings |-> b.get_ratings,
            names |-> [first |-> JsonNames(b.first), last |-> JsonNames(b.last)]]

\* load: cls(d['has_ratings']) with name_info replaced by the parsed
\* document, whose mappings are plain dicts
load(d) == [get_ratings |-> d.has_ratings, dd |-> FALSE,
            first |-> d.names.first, last |-> d.names.last]

--------------------------------------------------------------------------
(* NameDB.merge_ssa *)

GenderTexts == {"", "M", "F", "MF"}
\* g in s, for str
InStr(g, s) == \E a \in GenderTexts, z \in GenderTexts : a \o g \o z = s

\* a deliberately wrong variant, to show the property below is sensitive to it: the scan keeps the last record that matches
ScanGenderLastMatch(entries, gender) ==
    LET nogender == {i \in 1..Len(entries) : "gender" \notin DOMAIN entries[i]}
        hit == {i \in 1..Len(entries) : "gender" \in DOMAIN entries[i] /\ InStr(gender, entries[i].gender)}
        k == IF nogender = {} THEN Len(entries) + 1 ELSE Min(nogender)
        m == IF hit = {} THEN Len(entries) + 1 ELSE Max(hit)
    IN IF k < m THEN 0 ELSE m

\* the scan "for entry in entries: if (gender in entry['gender']): break":
\* the index of the record the scan stops at, Len + 1 when it runs through
\* (the else branch), 0 when entry['gender'] raises KeyError before that
ScanGender(entries, gender) ==
    LET nogender == {i \in 1..Len(entries) : "gender" \notin DOMAIN entries[i]}
        hit == {i \in 1..Len(entries) : "gender" \in DOMAIN entries[i] /\ InStr(gender, entries[i].gender)}
        k == IF nogender = {} THEN Len(entries) + 1 ELSE Min(nogender)
        m == IF hit = {} THEN Len(entries) + 1 ELSE Min(hit)
    IN IF k < m THEN 0 ELSE m

\* the body of the inner loop for one (name, gender, stats): [first, exc].
\* setdefault inserts an empty list for a new name; a matched record gets
\* entry['ssa'] = stats; in the else branch entry is a new dict that no list
\* holds, so the assignment changes nothing that is kept
MergeOne(first, name, gender, stats) ==
    LET f1 == IF name \in DOMAIN first THEN first ELSE (name :> <<>>) @@ first
        entries == f1[name]
        at == ScanGender(entries, gender)
    IN IF at = 0 THEN [first |-> f1, exc |-> "KeyError"]
       ELSE IF at <= Len(entries)
       THEN [first |-> [f1 EXCEPT ![name] = [entries EXCEPT ![at] = ("ssa" :> stats) @@ entries[at]]],
             exc |-> "none"]
       ELSE [first |-> f1, exc |-> "none"]

\* the items of name_stats, flattened in the order the two loops visit them
RECURSIVE Items(_)
Items(stats) ==
    IF stats = <<>> THEN <<>>
    ELSE [g \in 1..Len(stats[1].v) |-> <<stats[1].k, stats[1].v[g].k, stats[1].v[g].v>>] \o Items(Tail(stats))

RECURSIVE MergeFrom(_, _, _)
MergeFrom(b, items, i) ==
    IF i > Len(items) THEN [btn |-> b, exc |-> "none"]
    ELSE LET r == MergeOne(b.first, items[i][1], items[i][2], items[i][3])
         IN IF r.exc # "none" THEN [btn |-> [b EXCEPT !.first = r.first], exc |-> r.exc]
            ELSE MergeFrom([b EXCEPT !.first = r.first], items, i + 1)

merge_ssa(b, stats) == MergeFrom(b, Items(stats), 1)

--------------------------------------------------------------------------
(* The pages and the statistics that the calls are given *)

Frag1 == [listname |-> <<"A">>, masc |-> TRUE, fem |-> FALSE,
          usg |-> <<"English">>, after_br |-> <<"d1">>, nl |-> <<>>]
Frag2 == [listname |-> <<"A", " ", "(", "2", ")">>, masc |-> TRUE, fem |-> TRUE,
          usg |-> <<"English">>, after_br |-> <<"d", "2">>, nl |-> << <<"B", " ", "2">> >>]
Frag3 == [listname |-> <<"A">>, masc |-> FALSE, fem |-> FALSE,
          usg |-> <<"French">>, after_br |-> <<"d1">>, nl |-> <<>>]
Fragments == {Frag1, Frag2, Frag3}

NotFetched == [kind |-> "none"]
RatingResponses ==
    {[kind |-> "soup", table |-> << << <<<<" ", "G">>, <<"8", "0", "%">>>> >> >>,
      sibling |-> << <<"1", "2">>, <<"v">> >>],
     [kind |-> "soup", table |-> <<>>, sibling |-> <<>>],
     [kind |-> "raise", exc |-> "requests.exceptions.ConnectionError"],
     [kind |-> "raise", exc |-> "TimeoutError"]}

PageEntries(get_ratings) ==
    {[entry |-> e, rating |-> r] : e \in Fragments, r \in IF get_ratings THEN RatingResponses ELSE {NotFetched}}
Pages(get_ratings) ==
    UNION {[1..n -> PageEntries(get_ratings)] : n \in 0..(IF get_ratings THEN MaxRatedEntries ELSE MaxEntries)}

\* SSA.scrape run on given tables: the name_stats it leaves
RECURSIVE ScrapeRows(_, _, _, _, _)
ScrapeRows(stats, c, yr, rows, i) ==
    IF i >= Len(rows) THEN stats
    ELSE ScrapeRows(ProcessRow(stats, c, yr, i, rows[i + 1]).stats, c, yr, rows, i + 1)

Cnt == <<"1", ",", "2">>
StatsAM == ScrapeRows(<<>>, "n", first_year, << <<<<"1">>, <<"A">>, Cnt, <<>>, Cnt>> >>, 0)
StatsAMF == ScrapeRows(<<>>, "n", first_year, << <<<<"1">>, <<"A">>, Cnt, <<"A">>, <<"7">>>> >>, 0)
StatsBF == ScrapeRows(<<>>, "n", first_year, << <<<<"1">>, <<>>, Cnt, <<"B">>, Cnt>> >>, 0)
StatsAF == ScrapeRows(<<>>, "n", first_year, << <<<<"1">>, <<>>, Cnt, <<"A">>, <<"7">>>> >>, 0)
NameStats == {StatsAM, StatsAMF, StatsBF, StatsAF}

--------------------------------------------------------------------------
(* A run of calls on one NameDB *)

\* NameDB(): the default BehindTheName(), without ratings
Init ==
    /\ btn = NewBtn(FALSE)
    /\ err = "none" /\ ops = 0 /\ call = [op |-> "init"]
    /\ IdleNorm /\ IdleSsa /\ IdleTwin

\* a call made and its outcome: an exception ends the run
Called(r, c) ==
    /\ btn' = r.btn
    /\ err' = r.exc
    /\ ops' = ops + 1
    /\ call' = c

Running == err = "none" /\ twin_err = "none" /\ ops < MaxOps

ScrapeFirstNamePage ==
    /\ Running /\ twin = <<>>
    /\ \E page \in Pages(btn.get_ratings) :
          Called(scrape_first_name_page(btn, page), [op |-> "scrape_first_name_page", page |-> page])
    /\ UNCHANGED <<normVars, ssaVars, twinVars>>

ScrapeLastNamePage ==
    /\ Running /\ twin = <<>>
    /\ \E page \in Pages(FALSE), submit \in BOOLEAN :
          Called(scrape_last_name_page(btn, page, submit),
                 [op |-> "scrape_last_name_page", page |-> page, submit |-> submit])
    /\ UNCHANGED <<normVars, ssaVars, twinVars>>

MergeSsa ==
    /\ Running /\ twin = <<>>
    /\ \E stats \in NameStats :
          Called(merge_ssa(btn, stats), [op |-> "merge_ssa", stats |-> stats])
    /\ UNCHANGED <<normVars, ssaVars, twinVars>>

Next == ScrapeFirstNamePage \/ ScrapeLastNamePage \/ MergeSsa
Spec == Init /\ [][Next]_vars

\* NameDB(BehindTheName(get_ratings = True))
InitRatings ==
    /\ btn = NewBtn(TRUE)
    /\ err = "none" /\ ops = 0 /\ call = [op |-> "init"]
    /\ IdleNorm /\ IdleSsa /\ IdleTwin

SpecRatings == InitRatings /\ [][Next]_vars

--------------------------------------------------------------------------
(* A database saved and loaded, and the same calls made on the database   *)
(* that was saved (btn) and on the one that load returned (twin)          *)

InitReload ==
    /\ btn \in {NewBtn(g) : g \in BOOLEAN}
    /\ err = "none" /\ ops = 0 /\ call = [op |-> "init"]
    /\ IdleNorm /\ IdleSsa /\ IdleTwin

SaveLoad ==
    /\ Running /\ twin = <<>>
    /\ twin' = load(save(btn))
    /\ twin_err' = "none"
    /\ ops' = ops + 1
    /\ call' = [op |-> "save_load"]
    /\ UNCHANGED <<btn, err, normVars, ssaVars>>

CalledOnTwin(r) ==
    /\ twin' = r.btn
    /\ twin_err' = r.exc

BothScrapeFirstNamePage ==
    /\ Running /\ twin # <<>>
    /\ \E page \in Pages(btn.get_ratings) :
          /\ Called(scrape_first_name_page(btn, page), [op |-> "scrape_first_name_page", page |-> page])
          /\ CalledOnTwin(scrape_first_name_page(twin, page))
    /\ UNCHANGED <<normVars, ssaVars>>

BothScrapeLastNamePage ==
    /\ Running /\ twin # <<>>
    /\ \E page \in Pages(FALSE), submit \in BOOLEAN :
          /\ Called(scrape_last_name_page(btn, page, submit),
                    [op |-> "scrape_last_name_page", page |-> page, submit |-> submit])
          /\ CalledOnTwin(scrape_last_name_page(twin, page, submit))
    /\ UNCHANGED <<normVars, ssaVars>>

BothMergeSsa ==
    /\ Running /\ twin # <<>>
    /\ \E stats \in NameStats :
          /\ Called(merge_ssa(btn, stats), [op |-> "merge_ssa", stats |-> stats])
          /\ CalledOnTwin(merge_ssa(twin, stats))
    /\ UNCHANGED <<normVars, ssaVars>>

NextReload ==
    \/ ScrapeFirstNamePage \/ ScrapeLastNamePage \/ MergeSsa
    \/ SaveLoad
    \/ BothScrapeFirstNamePage \/ BothScrapeLastNamePage \/ BothMergeSsa
SpecReload == InitReload /\ [][NextReload]_vars

--------------------------------------------------------------------------
(* The claims about merge_ssa *)

ListOf(m, name) == IF name \in DOMAIN m THEN m[name] ELSE <<>>
\* the record's gender contains g
GenderContains(rec, g) == "gender" \in DOMAIN rec /\ InStr(g, rec.gender)
Unmatched(first, name, g) == \A i \in 1..Len(ListOf(first, name)) : ~GenderContains(ListOf(first, name)[i], g)
FirstMatching(first, name, g) == Min({i \in 1..Len(ListOf(first, name)) : GenderContains(ListOf(first, name)[i], g)})
WithoutSsa(rec) == [f \in DOMAIN rec \ {"ssa"} |-> rec[f]]

\* C1: after merge_ssa returns, every (name, gender) of the statistics that
\* no record of the name's first-name sequence matched has a new record
\* {gender, ssa: payload} in that sequence, which is one record longer for it.
C1_UnmatchedPairAppended ==
    [][
        (call'.op = "merge_ssa" /\ err' = "none") =>
            LET items == Range(Items(call'.stats))
            IN \A it \in items :
                  Unmatched(btn.first, it[1], it[2]) =>
                      /\ [gender |-> it[2], ssa |-> it[3]] \in Range(ListOf(btn'.first, it[1]))
                      /\ Len(ListOf(btn'.first, it[1])) = Len(ListOf(btn.first, it[1]))
                            + Cardinality({x \in items : x[1] = it[1] /\ Unmatched(btn.first, x[1], x[2])})
    ]_vars

\* C2: after merge_ssa has processed all pairs, for every (name, gender) of
\* the statistics that some record of the name's sequence matched, the first
\* such record carries that pair's payload as ssa, the sequence has the length
\* it had and no other field of any record has changed; also when an "MF"
\* record is the first match of the M and of the F payload of one name.
C2_FirstMatchCarriesPayload ==
    [][
        (call'.op = "merge_ssa" /\ err' = "none") =>
            \A it \in Range(Items(call'.stats)) :
                ~Unmatched(btn.first, it[1], it[2]) =>
                    LET before == btn.first[it[1]]
                        after == ListOf(btn'.first, it[1])
                        at == FirstMatching(btn.first, it[1], it[2])
                    IN /\ Len(after) = Len(before)
                       /\ "ssa" \in DOMAIN after[at] /\ after[at].ssa = it[3]
                       /\ \A i \in 1..Len(before) : WithoutSsa(after[i]) = WithoutSsa(before[i])
    ]_vars

\* the items that stop at the record that item it stops at
SameTarget(first, items, it) ==
    {j \in 1..Len(items) :
        /\ items[j][1] = it[1]
        /\ ~Unmatched(first, items[j][1], items[j][2])
        /\ FirstMatching(first, items[j][1], items[j][2]) = FirstMatching(first, it[1], it[2])}

\* C2 (amended): after merge_ssa has processed all pairs, the first record
\* that matches a pair carries as ssa the payload of the last pair, in the
\* order of processing, that it is the first match of (an "MF" record that
\* is the first match of the M and of the F payload of a name keeps the later
\* one only); the sequence has the length it had and no other field of any
\* record has changed.
C2_FirstMatchCarriesLastPayload ==
    [][
        (call'.op = "merge_ssa" /\ err' = "none") =>
            LET items == Items(call'.stats)
            IN \A it \in Range(items) :
                ~Unmatched(btn.first, it[1], it[2]) =>
                    LET before == btn.first[it[1]]
                        after == ListOf(btn'.first, it[1])
                        at == FirstMatching(btn.first, it[1], it[2])
                        last == items[Max(SameTarget(btn.first, items, it))]
                    IN /\ Len(after) = Len(before)
                       /\ "ssa" \in DOMAIN after[at] /\ after[at].ssa = last[3]
                       /\ \A i \in 1..Len(before) : WithoutSsa(after[i]) = WithoutSsa(before[i])
    ]_vars

\* merge_ssa has returned and a record that two pairs of one name stopped at
\* carries the payload of the later pair, another record of the name that
\* matches the pair too carrying none
C2_Witness ==
    /\ call.op = "merge_ssa" /\ err = "none"
    /\ LET items == Items(call.stats)
       IN \E i, j \in 1..Len(items) :
             /\ i < j /\ items[i][1] = items[j][1] /\ items[i][3] # items[j][3]
             /\ ~Unmatched(btn.first, items[i][1], items[i][2])
             /\ ~Unmatched(btn.first, items[j][1], items[j][2])
             /\ FirstMatching(btn.first, items[i][1], items[i][2]) = FirstMatching(btn.first, items[j][1], items[j][2])
             /\ LET list == btn.first[items[j][1]]
                    at == FirstMatching(btn.first, items[j][1], items[j][2])
                IN /\ list[at].ssa = items[j][3]
                   /\ \E k \in 1..Len(list) : k # at /\ GenderContains(list[k], items[i][2]) /\ "ssa" \notin DOMAIN list[k]

\* C9: merge_ssa never raises, whatever first-name store the scraper has
\* produced, records without a gender field included.
C9_MergeNeverRaises == call.op = "merge_ssa" => err = "none"

--------------------------------------------------------------------------
(* The claims about save and load *)

SameNames(a, b) == a.first = b.first /\ a.last = b.last

\* C3: load(save(db)) has the has_ratings flag and the names mapping of db:
\* the same names, the same records in the same order, the same fields
\* with the same values.
C3_RoundTrip ==
    call.op = "save_load" => twin.get_ratings = btn.get_ratings /\ SameNames(twin, btn)

\* C10: the loaded database behaves like the saved one under every later
\* call: the two end in the same names mapping and neither run raises.
C10_LoadedBehavesAlike ==
    twin # <<>> => err = "none" /\ twin_err = "none" /\ SameNames(twin, btn)

--------------------------------------------------------------------------
(* The claims about the pages *)

\* C6: with get_ratings, a rating page that cannot be fetched drops that
\* entry only: the page scrape returns normally and leaves the store that the
\* page without the failed entries would have left.
C6_RatingFailureSkipsEntryOnly ==
    [][
        (/\ call'.op = "scrape_first_name_page" /\ btn.get_ratings
         /\ \E i \in 1..Len(call'.page) : call'.page[i].rating.kind = "raise")
        => /\ err' = "none"
           /\ btn' = scrape_first_name_page(btn, SelectSeq(call'.page, LAMBDA e : e.rating.kind # "raise")).btn
    ]_vars

Distinct(list) == \A i, j \in 1..Len(list) : i # j => list[i] # list[j]
DistinctDescr(list) == \A i, j \in 1..Len(list) : i # j => Get(list[i], "descr") # Get(list[j], "descr")
Descrs(list) == {list[i].descr : i \in 1..Len(list)}
IsPrefix(a, b) == Len(a) <= Len(b) /\ SubSeq(b, 1, Len(a)) = a

\* no first-name sequence holds a record twice, no surname sequence a descr twice
Unique ==
    /\ \A n \in DOMAIN btn.first : Distinct(btn.first[n])
    /\ \A n \in DOMAIN btn.last : DistinctDescr(btn.last[n])

\* the descr values that the page's entries for name n carry
PageDescrs(page, n) ==
    {process_name_entry(page[i].entry)[2].descr :
        i \in {j \in 1..Len(page) : process_name_entry(page[j].entry)[1] = n}}
PageNames(page) == {process_name_entry(page[i].entry)[1] : i \in 1..Len(page)}

\* a surname page leaves every record that was there where it was, and
\* lengthens a name's sequence by one for each descr that is new to it
SurnamePageStep ==
    (call'.op = "scrape_last_name_page" /\ err' = "none") =>
        \A n \in PageNames(call'.page) \cup DOMAIN btn.last :
            LET before == ListOf(btn.last, n)
                after == ListOf(btn'.last, n)
            IN /\ IsPrefix(before, after)
               /\ Len(after) = Len(before) + Cardinality(PageDescrs(call'.page, n) \ Descrs(before))

\* a record whose descr a page entry repeats, and so is kept, is a curated one
KeptIsCurated ==
    (call'.op = "scrape_last_name_page" /\ err' = "none") =>
        \A n \in PageNames(call'.page) :
            \A i \in 1..Len(ListOf(btn.last, n)) :
                btn.last[n][i].descr \in PageDescrs(call'.page, n) => ~btn.last[n][i].submitted

\* C4 (as claimed): the store never holds a first-name record twice or a
\* surname descr twice; a surname record whose descr is already there is
\* discarded whatever its other fields are, the record kept being the
\* earlier, curated one, and one with a new descr lengthens the sequence by one.
C4_UniqueKeepsCurated == []Unique /\ [][SurnamePageStep /\ KeptIsCurated]_vars

\* C4 (amended): as above, the record kept being the earlier one, whether
\* curated or user-submitted.
C4_UniqueKeepsEarlier == []Unique /\ [][SurnamePageStep]_vars

\* a surname page has just been scraped and one of its entries was discarded
\* for a record of the same descr that differs from it in another field
C4_Witness ==
    /\ call.op = "scrape_last_name_page" /\ err = "none"
    /\ \E i \in 1..Len(call.page) :
          LET pe == process_name_entry(call.page[i].entry)
              parsed == [submitted |-> call.submit] @@ pe[2]
          IN /\ pe[1] \in DOMAIN btn.last
             /\ parsed \notin Range(btn.last[pe[1]])
             /\ parsed.descr \in Descrs(btn.last[pe[1]])

==========================================================================
